---- MODULE Spec2Model ----
(***************************************************************************)
(* movies-api: an Express application (app.js) over a mysql2 promise pool  *)
(* (db.js).  Two specifications:                                           *)
(*   Spec     the five route handlers of app.js as asynchronous tasks over *)
(*            the movies table: a handler issues one statement, suspends   *)
(*            at its await, the database settles the statement, and the    *)
(*            handler resumes and answers;                                 *)
(*   SpecApp  the path of one HTTP request through the layer stack of the  *)
(*            app, in the order app.js registers the layers.               *)
(* JSON values are strings ("true", "false", "null" and "undefined" stand  *)
(* for the JS values); ids are integers, 0 standing for "no id key".       *)
(***************************************************************************)
EXTENDS Integers, Sequences, FiniteSets, TLC

\* Bounds of the model.
MaxId == 2        \* rows the storage will ever insert (AUTO_INCREMENT ids 1..MaxId)

\* The requests that can be in flight at the same time
Slots == {"r1", "r2"}
Ids == 1..MaxId

----------------------------------------------------------------------------
\* JS / JSON values

Undefined == "undefined"
Null == "null"
False == "false"
True == "true"
NoId == 0

\* The seven columns a handler binds, in statement order
Columns == <<"title_file", "disk", "file", "sub_file", "type_file", "size", "is_new">>
ColumnSet == {Columns[i] : i \in 1..Len(Columns)}

\* req.body after express.json(): a key that is absent reads as undefined
EmptyBody ==
    [id |-> NoId, title_file |-> Undefined, disk |-> Undefined, file |-> Undefined,
     sub_file |-> Undefined, type_file |-> Undefined, size |-> Undefined,
     is_new |-> Undefined]

\* The request bodies the clients send
Bodies ==
    { [EmptyBody EXCEPT !.title_file = "Inception", !.is_new = True],
      [EmptyBody EXCEPT !.title_file = "Alien", !.disk = "D1", !.file = "alien.mkv",
                        !.sub_file = "alien.srt", !.type_file = "mkv", !.size = "1.5GB"],
      [EmptyBody EXCEPT !.id = 2, !.title_file = "Heat", !.is_new = False] }

\* err.message of a driver or database error
ErrorMessages == {"connect ECONNREFUSED"}

\* JS truthiness of a JSON value
Falsy == {Undefined, Null, False, ""}

\* a || b
JsOr(a, b) == IF a \in Falsy THEN b ELSE a

\* mysql2 query(): SqlString.escape binds undefined (and null) as NULL
Escape(v) == IF v = Undefined THEN Null ELSE v

----------------------------------------------------------------------------
\* Responses and database results

NoMovie == [EmptyBody EXCEPT !.id = NoId]

NoResponse == [status |-> 0, message |-> "", error |-> "", movie |-> NoMovie, rows |-> <<>>]

Json(status, movie) == [NoResponse EXCEPT !.status = status, !.movie = movie]
JsonMessage(status, msg) == [NoResponse EXCEPT !.status = status, !.message = msg]
JsonError(status, msg) == [NoResponse EXCEPT !.status = status, !.error = msg]
JsonRows(status, rows) == [NoResponse EXCEPT !.status = status, !.rows = rows]

NoWrite == [op |-> "none", body |-> EmptyBody]

\* What the promise of db.query settles with.  by is history: the write that
\* last produced the row a SELECT by id looked for.
NoResult ==
    [error |-> "", rows |-> <<>>, insertId |-> NoId, affectedRows |-> 0, by |-> NoWrite]

\* A free slot.  gone is history: whether a DELETE of the request's id had
\* been answered 200 when the request arrived.
IdleReq ==
    [pc |-> "idle", kind |-> "none", id |-> NoId, body |-> EmptyBody,
     res |-> NoResult, sent |-> <<>>, gone |-> FALSE]

\* No request is in the layer stack
NoHttp ==
    [pc |-> "none", method |-> "", path |-> <<>>, layer |-> 0,
     status |-> 0, message |-> "", by |-> ""]

VARIABLES
    movies,     \* the movies table: the rows in storage order
    nextId,     \* the table's AUTO_INCREMENT counter
    reqs,       \* the requests in flight, one per slot
    hist,       \* history: for each id, the statement that last wrote its row
    deleted,    \* history: the ids whose DELETE has been answered 200
    http        \* SpecApp: the request travelling through the layer stack

vars == <<movies, nextId, reqs, hist, deleted, http>>

----------------------------------------------------------------------------
\* Statements

RECURSIVE SelectRows(_, _)
\* SELECT * FROM movies WHERE id = ?
SelectRows(rows, id) ==
    IF rows = <<>> THEN <<>>
    ELSE IF Head(rows).id = id THEN <<Head(rows)>> \o SelectRows(Tail(rows), id)
    ELSE SelectRows(Tail(rows), id)

RECURSIVE DeleteRows(_, _)
\* DELETE FROM movies WHERE id = ?
DeleteRows(rows, id) ==
    IF rows = <<>> THEN <<>>
    ELSE IF Head(rows).id = id THEN DeleteRows(Tail(rows), id)
    ELSE <<Head(rows)>> \o DeleteRows(Tail(rows), id)

\* InsertParams without the "|| false" of is_new
InsertParamsNoDefault(body) == [c \in ColumnSet |-> body[c]]

\* The values post binds to its INSERT: is_new || false
InsertParams(body) ==
    [c \in ColumnSet |-> IF c = "is_new" THEN JsOr(body[c], False) ELSE body[c]]

\* UpdateParams with the "is_new || false" of post
UpdateParamsDefault(body) ==
    [c \in ColumnSet |-> IF c = "is_new" THEN JsOr(body[c], False) ELSE body[c]]

\* The values put binds to its UPDATE
UpdateParams(body) == [c \in ColumnSet |-> body[c]]

\* A row holding the bound values in its seven columns
RowOf(id, params) ==
    [id |-> id, title_file |-> Escape(params.title_file), disk |-> Escape(params.disk),
     file |-> Escape(params.file), sub_file |-> Escape(params.sub_file),
     type_file |-> Escape(params.type_file), size |-> Escape(params.size),
     is_new |-> Escape(params.is_new)]

\* UpdateRows as an upsert: a row is created when none has the id
UpdateRowsUpsert(rows, id, params) ==
    IF \E i \in 1..Len(rows) : rows[i].id = id
    THEN [i \in 1..Len(rows) |-> IF rows[i].id = id THEN RowOf(id, params) ELSE rows[i]]
    ELSE Append(rows, RowOf(id, params))

\* UpdateRows setting only the columns the body has, the others keeping their value
UpdateRowsPresentOnly(rows, id, params) ==
    [i \in 1..Len(rows) |->
        IF rows[i].id = id
        THEN [c \in DOMAIN rows[i] |->
                IF c \in ColumnSet /\ params[c] # Undefined THEN params[c] ELSE rows[i][c]]
        ELSE rows[i]]

\* UPDATE movies SET <seven columns> WHERE id = ?
UpdateRows(rows, id, params) ==
    [i \in 1..Len(rows) |-> IF rows[i].id = id THEN RowOf(rows[i].id, params) ELSE rows[i]]

\* { id: <id>, ...req.body }: a key of the body overrides the one before the spread
Spread(id, body) == IF body.id # NoId THEN body ELSE [body EXCEPT !.id = id]

----------------------------------------------------------------------------
\* Initial state: an empty table, no request in flight

Init ==
    /\ movies = <<>>
    /\ nextId = 1
    /\ reqs = [s \in Slots |-> IdleReq]
    /\ hist = [i \in Ids |-> NoWrite]
    /\ deleted = {}
    /\ http = NoHttp

\* A handler runs to its await: the statement is issued on the pool
Issue(s, kind, id, body) ==
    /\ reqs[s].pc = "idle"
    /\ reqs' = [reqs EXCEPT ![s] = [IdleReq EXCEPT !.pc = "query", !.kind = kind,
                                                   !.id = id, !.body = body,
                                                   !.gone = id \in deleted]]
    /\ UNCHANGED <<movies, nextId, hist, deleted, http>>

GetMovies(s) == Issue(s, "GET_ALL", NoId, EmptyBody)

GetMovie(s, id) == Issue(s, "GET_ONE", id, EmptyBody)

PostMovie(s, body) == Issue(s, "POST", NoId, body)

PutMovie(s, id, body) == Issue(s, "PUT", id, body)

DeleteMovie(s, id) == Issue(s, "DELETE", id, EmptyBody)

\* The promise of slot s settles with res
Settle(s, res) ==
    reqs' = [reqs EXCEPT ![s] = [@ EXCEPT !.pc = "result", !.res = res]]

\* The statement failed: a driver or database error rejects the promise
DbFail(s, msg) ==
    /\ reqs[s].pc = "query"
    /\ Settle(s, [NoResult EXCEPT !.error = msg])
    /\ UNCHANGED <<movies, nextId, hist, deleted, http>>

\* db.query("SELECT * FROM movies")
DbSelectAll(s) ==
    /\ reqs[s].pc = "query"
    /\ reqs[s].kind = "GET_ALL"
    /\ Settle(s, [NoResult EXCEPT !.rows = movies])
    /\ UNCHANGED <<movies, nextId, hist, deleted, http>>

\* db.query("SELECT * FROM movies WHERE id = ?", [req.params.id])
DbSelect(s) ==
    /\ reqs[s].pc = "query"
    /\ reqs[s].kind = "GET_ONE"
    /\ Settle(s, [NoResult EXCEPT !.rows = SelectRows(movies, reqs[s].id),
                                  !.by = hist[reqs[s].id]])
    /\ UNCHANGED <<movies, nextId, hist, deleted, http>>

\* The id storage generates for the row it inserts
GeneratedId == nextId

\* db.query("INSERT INTO movies (...) VALUES (?, ?, ?, ?, ?, ?, ?)", [...])
DbInsert(s) ==
    /\ reqs[s].pc = "query"
    /\ reqs[s].kind = "POST"
    /\ nextId <= MaxId
    /\ LET id == GeneratedId IN
       /\ movies' = Append(movies, RowOf(id, InsertParams(reqs[s].body)))
       /\ hist' = [hist EXCEPT ![id] = [op |-> "INSERT", body |-> reqs[s].body]]
       /\ Settle(s, [NoResult EXCEPT !.insertId = id, !.affectedRows = 1])
    /\ nextId' = nextId + 1
    /\ UNCHANGED <<deleted, http>>

\* DbUpdate with the id column set from the body's id key as well
DbUpdateSetId(s) ==
    /\ reqs[s].pc = "query"
    /\ reqs[s].kind = "PUT"
    /\ LET id == reqs[s].id
           newId == IF reqs[s].body.id # NoId THEN reqs[s].body.id ELSE id
           n == Len(SelectRows(movies, id)) IN
       /\ movies' = [i \in 1..Len(movies) |->
                        IF movies[i].id = id
                        THEN RowOf(newId, UpdateParams(reqs[s].body)) ELSE movies[i]]
       /\ hist' = IF n = 0 THEN hist
                  ELSE [hist EXCEPT ![id] = [op |-> "UPDATE", body |-> reqs[s].body]]
       /\ Settle(s, [NoResult EXCEPT !.affectedRows = n])
    /\ UNCHANGED <<nextId, deleted, http>>

\* db.query("UPDATE movies SET ... WHERE id = ?", [..., req.params.id])
DbUpdate(s) ==
    /\ reqs[s].pc = "query"
    /\ reqs[s].kind = "PUT"
    /\ LET id == reqs[s].id
           n == Len(SelectRows(movies, id)) IN
       /\ movies' = UpdateRows(movies, id, UpdateParams(reqs[s].body))
       /\ hist' = IF n = 0 THEN hist
                  ELSE [hist EXCEPT ![id] = [op |-> "UPDATE", body |-> reqs[s].body]]
       /\ Settle(s, [NoResult EXCEPT !.affectedRows = n])
    /\ UNCHANGED <<nextId, deleted, http>>

\* db.query("DELETE FROM movies WHERE id = ?", [req.params.id])
DbDelete(s) ==
    /\ reqs[s].pc = "query"
    /\ reqs[s].kind = "DELETE"
    /\ LET id == reqs[s].id
           n == Len(SelectRows(movies, id)) IN
       /\ movies' = DeleteRows(movies, id)
       /\ hist' = IF n = 0 THEN hist
                  ELSE [hist EXCEPT ![id] = [op |-> "DELETE", body |-> EmptyBody]]
       /\ Settle(s, [NoResult EXCEPT !.affectedRows = n])
    /\ UNCHANGED <<nextId, deleted, http>>

----------------------------------------------------------------------------
\* What each handler answers once its await has settled (try / catch)

GetMoviesResponse(res) ==
    IF res.error # "" THEN JsonError(500, res.error)
    ELSE JsonRows(200, res.rows)

\* GetMovieResponse without the rows.length test
GetMovieResponseNoCheck(res) ==
    IF res.error # "" THEN JsonError(500, res.error)
    ELSE Json(200, IF Len(res.rows) = 0 THEN NoMovie ELSE res.rows[1])

GetMovieResponse(res) ==
    IF res.error # "" THEN JsonError(500, res.error)
    ELSE IF Len(res.rows) = 0 THEN JsonMessage(404, "Film non trouvé")
    ELSE Json(200, res.rows[1])

PostMovieResponse(body, res) ==
    IF res.error # "" THEN JsonError(500, res.error)
    ELSE Json(201, Spread(res.insertId, body))

\* PutMovieResponse whose catch answers like the not-found branch
PutMovieResponseNoCatch(id, body, res) ==
    IF res.error # "" \/ res.affectedRows = 0 THEN JsonMessage(404, "Film non trouvé")
    ELSE Json(200, Spread(id, body))

PutMovieResponse(id, body, res) ==
    IF res.error # "" THEN JsonError(500, res.error)
    ELSE IF res.affectedRows = 0 THEN JsonMessage(404, "Film non trouvé")
    ELSE Json(200, Spread(id, body))

\* DeleteMovieResponse without the affectedRows test
DeleteMovieResponseNoCheck(res) ==
    IF res.error # "" THEN JsonError(500, res.error)
    ELSE JsonMessage(200, "Film supprimé avec succès")

DeleteMovieResponse(res) ==
    IF res.error # "" THEN JsonError(500, res.error)
    ELSE IF res.affectedRows = 0 THEN JsonMessage(404, "Film non trouvé")
    ELSE JsonMessage(200, "Film supprimé avec succès")

\* The handler of slot s resumes after its await and sends its response
Reply(s, kind, response) ==
    /\ reqs[s].pc = "result"
    /\ reqs[s].kind = kind
    /\ reqs' = [reqs EXCEPT ![s] = [@ EXCEPT !.pc = "done", !.sent = Append(@, response)]]
    /\ deleted' = IF kind = "DELETE" /\ response.status = 200
                  THEN deleted \cup {reqs[s].id} ELSE deleted
    /\ UNCHANGED <<movies, nextId, hist, http>>

GetMoviesReply(s) == Reply(s, "GET_ALL", GetMoviesResponse(reqs[s].res))

GetMovieReply(s) == Reply(s, "GET_ONE", GetMovieResponse(reqs[s].res))

PostMovieReply(s) == Reply(s, "POST", PostMovieResponse(reqs[s].body, reqs[s].res))

PutMovieReply(s) == Reply(s, "PUT", PutMovieResponse(reqs[s].id, reqs[s].body, reqs[s].res))

DeleteMovieReply(s) == Reply(s, "DELETE", DeleteMovieResponse(reqs[s].res))

\* The response has been written out; the slot serves the next request
Close(s) ==
    /\ reqs[s].pc = "done"
    /\ reqs' = [reqs EXCEPT ![s] = IdleReq]
    /\ UNCHANGED <<movies, nextId, hist, deleted, http>>

Next ==
    \E s \in Slots :
        \/ GetMovies(s)
        \/ \E id \in Ids : GetMovie(s, id)
        \/ \E b \in Bodies : PostMovie(s, b)
        \/ \E id \in Ids, b \in Bodies : PutMovie(s, id, b)
        \/ \E id \in Ids : DeleteMovie(s, id)
        \/ \E msg \in ErrorMessages : DbFail(s, msg)
        \/ DbSelectAll(s)
        \/ DbSelect(s)
        \/ DbInsert(s)
        \/ DbUpdate(s)
        \/ DbDelete(s)
        \/ GetMoviesReply(s)
        \/ GetMovieReply(s)
        \/ PostMovieReply(s)
        \/ PutMovieReply(s)
        \/ DeleteMovieReply(s)
        \/ Close(s)

Spec == Init /\ [][Next]_vars

----------------------------------------------------------------------------
\* SpecApp: one HTTP request through the layers of the app, in the order
\* app.js registers them.  app.use(path, ...) matches every method and every
\* path below its mount path; app.get/post/put/delete match one method and
\* one path pattern.

Layers ==
    << [name |-> "express.json",     mount |-> "use",    path |-> <<>>],
       [name |-> "swaggerUi.serve",  mount |-> "use",    path |-> <<>>],
       [name |-> "swaggerUi.setup",  mount |-> "use",    path |-> <<>>],
       [name |-> "GET /movies",      mount |-> "GET",    path |-> <<"movies">>],
       [name |-> "GET /movies/:id",  mount |-> "GET",    path |-> <<"movies", ":id">>],
       [name |-> "POST /movies",     mount |-> "POST",   path |-> <<"movies">>],
       [name |-> "PUT /movies/:id",  mount |-> "PUT",    path |-> <<"movies", ":id">>],
       [name |-> "DELETE /movies/:id", mount |-> "DELETE", path |-> <<"movies", ":id">>],
       [name |-> "notFound",         mount |-> "use",    path |-> <<>>] >>

\* The five movie routes
MovieRoutes == {i \in 1..Len(Layers) : Layers[i].mount # "use"}

Methods == {"GET", "POST", "PUT", "DELETE", "PATCH"}

\* Request paths, as their segments: /, /movies, /movies/1, /movies/1/cast,
\* /unknown, and two paths of the documentation's own assets
Paths ==
    { <<>>, <<"movies">>, <<"movies", "1">>, <<"movies", "1", "cast">>, <<"unknown">>,
      <<"swagger-ui.css">>, <<"swagger-ui-init.js">> }

\* The files express.static finds in the swagger-ui-dist directory
SwaggerAssets == {<<"swagger-ui.css">>}

\* The paths the documentation is served under: the root and its assets
DocsPaths == {<<>>, <<"swagger-ui.css">>, <<"swagger-ui-init.js">>}

\* A route pattern matches a path of the same length, :id matching any segment
PatternMatches(pattern, path) ==
    /\ Len(pattern) = Len(path)
    /\ \A i \in 1..Len(pattern) : pattern[i] = ":id" \/ pattern[i] = path[i]

\* A mount path matches every path it is a prefix of
PrefixMatches(prefix, path) ==
    /\ Len(prefix) <= Len(path)
    /\ \A i \in 1..Len(prefix) : prefix[i] = path[i]

\* Whether layer i handles the request
LayerMatches(i, method, path) ==
    IF Layers[i].mount = "use" THEN PrefixMatches(Layers[i].path, path)
    ELSE Layers[i].mount = method /\ PatternMatches(Layers[i].path, path)

\* Whether the request is one of the five movie routes
IsMovieRoute(method, path) == \E i \in MovieRoutes : LayerMatches(i, method, path)

Pass == [next |-> TRUE, status |-> 0, message |-> ""]
Answer(status, message) == [next |-> FALSE, status |-> status, message |-> message]

\* What a matching layer does with the request: call next(), or answer.
\* swaggerUi.serve answers its own init script and the static files of
\* swagger-ui-dist and passes everything else on; the middleware
\* swaggerUi.setup returns sends the documentation page and never calls
\* next(); a movie route runs its handler (Spec), which answers.
LayerRun(i, method, path) ==
    CASE Layers[i].name = "express.json" -> Pass
      [] Layers[i].name = "swaggerUi.serve" ->
            IF path = <<"swagger-ui-init.js">> THEN Answer(200, "swagger-ui-init.js")
            ELSE IF method = "GET" /\ path \in SwaggerAssets THEN Answer(200, "static file")
            ELSE Pass
      [] Layers[i].name = "swaggerUi.setup" -> Answer(200, "Swagger UI page")
      [] Layers[i].name = "notFound" -> Answer(404, "Route non trouvée")
      [] OTHER -> Answer(0, "handler")

\* A request enters the app at its first layer
AppReceive(method, path) ==
    /\ http.pc = "none"
    /\ http' = [NoHttp EXCEPT !.pc = "in", !.method = method, !.path = path, !.layer = 1]
    /\ UNCHANGED <<movies, nextId, reqs, hist, deleted>>

\* The router tries the request on its current layer
AppLayer ==
    /\ http.pc = "in"
    /\ http.layer <= Len(Layers)
    /\ LET i == http.layer
           out == LayerRun(i, http.method, http.path) IN
       http' = IF ~LayerMatches(i, http.method, http.path) \/ out.next
               THEN [http EXCEPT !.layer = i + 1]
               ELSE [http EXCEPT !.pc = "done", !.status = out.status,
                                 !.message = out.message, !.by = Layers[i].name]
    /\ UNCHANGED <<movies, nextId, reqs, hist, deleted>>

\* The response has been written out
AppClose ==
    /\ http.pc = "done"
    /\ http' = NoHttp
    /\ UNCHANGED <<movies, nextId, reqs, hist, deleted>>

NextApp ==
    \/ \E method \in Methods, path \in Paths : AppReceive(method, path)
    \/ AppLayer
    \/ AppClose

SpecApp == Init /\ [][NextApp]_vars

----------------------------------------------------------------------------
\* Properties

\* Whether the table holds a row with this id
RowExists(rows, id) == \E i \in 1..Len(rows) : rows[i].id = id

\* The request in slot s has been answered; Answered(s) is its response
IsDone(s, kind) == reqs[s].kind = kind /\ reqs[s].pc = "done"
Answered(s) == reqs[s].sent[1]

\* Slot s takes a step of a request of this kind
Steps(s, kind) ==
    /\ reqs'[s] # reqs[s]
    /\ reqs[s].kind = kind \/ reqs'[s].kind = kind

\* The statement of slot s settles without error in this step
Settles(s, kind) ==
    /\ reqs[s].kind = kind
    /\ reqs[s].pc = "query"
    /\ reqs'[s].pc = "result"
    /\ reqs'[s].res.error = ""

\* The handler of slot s answers in this step
Answers(s, kind) ==
    /\ reqs[s].kind = kind
    /\ reqs[s].pc = "result"
    /\ reqs'[s].pc = "done"

NotFound == JsonMessage(404, "Film non trouvé")

\* The bodies of claim C1: title_file set, any of the optional fields, no id key
PostedBodies == {b \in Bodies : b.title_file # Undefined /\ b.id = NoId}

\* C1: a POST /movies of a body with title_file set (and no id key) that
\* answers 201 carries the id of the row it inserted, and a GET /movies/{id}
\* that finds the row as a POST with title_file set left it answers 200 with
\* a Movie of that id whose fields equal the posted fields, is_new being
\* false when the body had no is_new.
C1_PostThenGet ==
    \A s \in Slots :
        /\ (IsDone(s, "POST") /\ reqs[s].body \in PostedBodies /\ Answered(s).status = 201)
              => Answered(s).movie.id = reqs[s].res.insertId
        /\ (IsDone(s, "GET_ONE") /\ reqs[s].res.error = "" /\ reqs[s].res.by.op = "INSERT"
                /\ reqs[s].res.by.body.title_file # Undefined)
              => LET posted == reqs[s].res.by.body
                     movie == Answered(s).movie IN
                 /\ Answered(s).status = 200
                 /\ movie.id = reqs[s].id
                 /\ \A c \in ColumnSet : posted[c] # Undefined => movie[c] = posted[c]
                 /\ posted.is_new = Undefined => movie.is_new = False

\* C1 witness: a GET has answered with the row a POST without is_new inserted
C1_Witness ==
    \E s \in Slots :
        /\ IsDone(s, "GET_ONE") /\ Answered(s).status = 200
        /\ reqs[s].res.by.op = "INSERT"
        /\ reqs[s].res.by.body \in PostedBodies
        /\ reqs[s].res.by.body.is_new = Undefined
        /\ Answered(s).movie.disk = "D1"

\* C2: every 201 response of POST /movies carries in its id field the id
\* that storage generated for the inserted row (result.insertId), whatever
\* the body, a body with an id key included.
C2_PostAnswersGeneratedId ==
    \A s \in Slots :
        (IsDone(s, "POST") /\ Answered(s).status = 201)
            => Answered(s).movie.id = reqs[s].res.insertId

C6_UnmatchedRouteNotFound ==
    (http.pc = "done" /\ ~IsMovieRoute(http.method, http.path) /\ http.path \notin DocsPaths)
        => /\ http.by = "notFound"
           /\ http.status = 404
           /\ http.message = "Route non trouvée"

\* C7: a request is answered exactly once; when its statement failed the
\* answer is 500 with the error's message as its error field; and the failure
\* changes neither the table nor any other request.
C7_FailureAnswers500 ==
    /\ [](\A s \in Slots :
             /\ reqs[s].pc = "done" => Len(reqs[s].sent) = 1
             /\ reqs[s].pc # "done" => reqs[s].sent = <<>>
             /\ (reqs[s].pc = "done" /\ reqs[s].res.error # "")
                   => Answered(s) = JsonError(500, reqs[s].res.error))
    /\ [][\A s \in Slots :
             (reqs[s].pc = "query" /\ reqs'[s].pc = "result" /\ reqs'[s].res.error # "")
                => /\ movies' = movies
                   /\ nextId' = nextId
                   /\ \A t \in Slots \ {s} : reqs'[t] = reqs[t]
         ]_vars

\* C7 witness: a GET /movies and a PUT whose statements failed have both
\* answered 500 while the table holds a row
C7_Witness ==
    \E s, t \in Slots :
        /\ IsDone(s, "GET_ALL") /\ reqs[s].res.error # "" /\ Answered(s).status = 500
        /\ IsDone(t, "PUT") /\ reqs[t].res.error # "" /\ Answered(t).status = 500
        /\ movies # <<>>

\* The ids of the rows, in storage order
IdsOf(rows) == [i \in 1..Len(rows) |-> rows[i].id]

\* ids without id
WithoutId(ids, id) == LET Keep(x) == x # id IN SelectSeq(ids, Keep)

\* C8: no two rows share an id; a step changes the ids of the table only by
\* appending an id no row had or by removing the rows of one id; and an
\* UPDATE of a PUT /movies/{id} changes no id and only rows whose id is the
\* path id, whatever its body.
C8_IdUniqueImmutable ==
    /\ [](\A i, j \in 1..Len(movies) : movies[i].id = movies[j].id => i = j)
    /\ [][/\ \/ IdsOf(movies') = IdsOf(movies)
             \/ \E id \in Ids : /\ ~RowExists(movies, id)
                                /\ IdsOf(movies') = Append(IdsOf(movies), id)
             \/ \E id \in Ids : IdsOf(movies') = WithoutId(IdsOf(movies), id)
          /\ \A s \in Slots :
                (reqs[s].kind = "PUT" /\ reqs[s].pc = "query" /\ reqs'[s].pc = "result")
                   => /\ IdsOf(movies') = IdsOf(movies)
                      /\ \A i \in 1..Len(movies) :
                            movies'[i] # movies[i] => movies[i].id = reqs[s].id
         ]_vars

\* C8 witness: a PUT whose body has an id key other than the path id has
\* answered 200 while the table holds two rows
C8_Witness ==
    \E s \in Slots :
        /\ IsDone(s, "PUT") /\ Answered(s).status = 200
        /\ reqs[s].body.id \notin {NoId, reqs[s].id}
        /\ Len(movies) = 2
        /\ hist[reqs[s].id] = [op |-> "UPDATE", body |-> reqs[s].body]

\* The row of this id
RowWithId(rows, id) == CHOOSE r \in {rows[i] : i \in 1..Len(rows)} : r.id = id

====
